---- MODULE Spec2Model ----
(***************************************************************************)
(* The benchmark runner of benchmarks/python/benchmark_runner.py as a      *)
(* state machine: main() (the CLI), run_suite() (the loop over the         *)
(* benchmark definitions of a suite, with its try/except) and              *)
(* run_benchmark() (warmup calls, timed calls, statistics, the individual  *)
(* result file).  The callables of a definition (setup, fn, cleanup), the  *)
(* timer and the file system are the environment: every call returns or    *)
(* raises an Exception, every timed call takes some duration, every write  *)
(* succeeds or fails.                                                      *)
(***************************************************************************)
EXTENDS Integers, Sequences, FiniteSets, TLC

VARIABLES
    args,           \* main: the parsed command line, or NoArgs when run_suite is called directly
    suite,          \* suite["benchmarks"]: the sequence of benchmark definitions (dicts)
    declared,       \* history: suite["benchmarks"] as the suite module declared it
    options,        \* run_suite's options dict
    given,          \* history: the options dict as handed to run_suite
    pc,             \* the position of the program
    idx,            \* run_suite: 1-based position of the for loop in suite["benchmarks"]
    setup_result,   \* run_suite: the local setup_result
    frame,          \* run_benchmark: its parameters and locals (iterations, warmup, times)
    result,         \* run_suite: the local result (what run_benchmark returned)
    suite_results,  \* run_suite: suite_results["benchmarks"]
    files,          \* the results directory: individual result files and the suite report
    calls,          \* history: the calls made for the benchmark the loop is at (or just left)
    exit_code       \* main's return value (the process exit code)

vars == <<args, suite, declared, options, given, pc, idx, setup_result, frame,
          result, suite_results, files, calls, exit_code>>

-----------------------------------------------------------------------------
(* Bounds of the model *)

\* suites hold 1..MaxBenchmarks benchmark definitions
MaxBenchmarks == 2
\* the counts a definition declares (and --iterations gives) are -1, 0 or MaxIterations
MaxIterations == 2
\* a timed call takes 0..MaxDuration time units
MaxDuration == 1
\* the first MaxJitter timed calls of a benchmark take any duration, later ones take 0
MaxJitter == 1
\* the statistics are checked on every sample sequence of up to MaxSamples samples
MaxSamples == 4
\* ... with samples in 0..MaxSample
MaxSample == 4
\* the largest count of the runs on which the warmup is checked
MaxCount == 110

(* Program constants *)

\* run_suite: benchmark.get("iterations", 100)
DefaultIterations == 100
\* run_benchmark: min(10, iterations // 10)
WarmupCap == 10
WarmupDivisor == 10

-----------------------------------------------------------------------------
(* Python values *)

\* None, and the context value the setup of benchmark `name` returns
None == <<>>
Context(name) == <<"context", name>>

\* the dict with no key
EmptyDict == [k \in {} |-> k]

\* the dicts with key k bound to a value of V, or without it
Optional(k, V) == {EmptyDict} \cup {k :> v : v \in V}

\* d.get(k, default) of a dict
Get(d, k, default) == IF k \in DOMAIN d THEN d[k] ELSE default

\* options.get(k) is truthy: a flag set to True, a non-empty file name
Flag(d, k) == k \in DOMAIN d /\ d[k] = TRUE
Named(d, k) == k \in DOMAIN d /\ d[k] # ""

\* a // b for b > 0 (floor division)
FloorDiv(a, b) == a \div b

\* int(n * 0.95): the product truncated towards zero (the binary64 product
\* n * 0.95 truncates to the same integer as 95 n / 100 for every count a run can have)
Int95(n) == IF n >= 0 THEN (95 * n) \div 100 ELSE 0 - ((95 * (0 - n)) \div 100)

\* whether seq[i] (0-based, negative i counted from the end) is inside the list
InRange(seq, i) == (0 - Len(seq)) <= i /\ i < Len(seq)

\* seq[i] of a Python list
Item(seq, i) == IF i >= 0 THEN seq[i + 1] ELSE seq[Len(seq) + i + 1]

\* sum(seq): the samples are exact multiples of one unit, so the sum does not
\* depend on the order of the additions; it is taken half by half
RECURSIVE Sum(_)
Sum(seq) ==
    IF seq = <<>> THEN 0
    ELSE IF Len(seq) = 1 THEN seq[1]
    ELSE LET half == Len(seq) \div 2
         IN  Sum(SubSeq(seq, 1, half)) + Sum(SubSeq(seq, half + 1, Len(seq)))

\* the elements of seq whose value is in values, in ascending order: the smallest
\* value as often as it occurs in seq, then the others
RECURSIVE Ascending(_, _)
Ascending(seq, values) ==
    IF values = {} THEN <<>>
    ELSE LET least == CHOOSE x \in values : \A y \in values : x <= y
             count == Cardinality({i \in 1 .. Len(seq) : seq[i] = least})
         IN  [i \in 1 .. count |-> least] \o Ascending(seq, values \ {least})

\* a faulty sort: the samples are left in the order of the calls
Unsorted(seq) == seq

\* sorted(times)
Sorted(seq) == Ascending(seq, {seq[i] : i \in 1 .. Len(seq)})

Min(a, b) == IF a <= b THEN a ELSE b

-----------------------------------------------------------------------------
(* The inputs: suites, options, command lines *)

\* the iteration counts a definition may declare, or --iterations may give
IterationCounts == {0 - 1, 0, MaxIterations}

\* the benchmark definitions named `name`: "fn", and optionally "iterations",
\* "setup" and "cleanup"
Definitions(name) ==
    { [name |-> name, fn |-> "fn"] @@ i @@ s @@ c :
        i \in Optional("iterations", IterationCounts),
        s \in Optional("setup", {"setup"}),
        c \in Optional("cleanup", {"cleanup"}) }

\* suite["benchmarks"]: 1..MaxBenchmarks definitions, named 1, 2, ... in order
Suites ==
    UNION { { b \in [1 .. n -> UNION {Definitions(k) : k \in 1 .. n}] :
                \A k \in 1 .. n : b[k].name = k } : n \in 1 .. MaxBenchmarks }

\* the options a caller of run_suite may pass
OptionDicts ==
    { w @@ i @@ f :
        w \in Optional("warmup", {FALSE}),
        i \in Optional("save_individual", {TRUE}),
        f \in Optional("save_file", {"report.json"}) }

\* the command lines: the suite module is found or not, --iterations given or not
CommandLines ==
    {[found |-> FALSE]}
        \cup { [found |-> TRUE] @@ i : i \in Optional("iterations", IterationCounts) }

-----------------------------------------------------------------------------
(* run_benchmark: the pure parts *)

\* a faulty warmup count: the cap of 10 calls is left out
WarmupUncapped(iterations, warmup) ==
    IF warmup
    THEN LET n == FloorDiv(iterations, WarmupDivisor)
         IN  IF n > 0 THEN n ELSE 0
    ELSE 0

\* the number of warmup calls: range(min(10, iterations // 10)), if options["warmup"]
WarmupCount(iterations, warmup) ==
    IF warmup
    THEN LET n == Min(WarmupCap, FloorDiv(iterations, WarmupDivisor))
         IN  IF n > 0 THEN n ELSE 0
    ELSE 0

\* the durations the timer may report for the next timed call.  A duration is
\* (end_time - start_time) * 1000 of two time.time() values: the difference is a
\* multiple of the clock's unit in binary64 and so is its product with 1000, so
\* durations, and their sums, are exact multiples of one unit: integers here
NextDurations(times) ==
    IF Len(times) < MaxJitter THEN 0 .. MaxDuration ELSE {0}

\* a faulty median: the lower of the two middle samples
LowerMedianIndex(iterations) == FloorDiv(iterations - 1, 2)

\* the index of the median in sorted_times
MedianIndex(iterations) == FloorDiv(iterations, 2)

\* a faulty p95: the product is rounded to the nearest index
P95IndexRounded(iterations) == FloorDiv(95 * iterations + 50, 100)

\* the index of p95 in sorted_times
P95Index(iterations) == Int95(iterations)

\* the exception the results dict literal raises, or "" if it raises none:
\* total_time / iterations, then the subscripts of sorted_times, in order
StatisticsError(times, iterations) ==
    IF iterations = 0 THEN "ZeroDivisionError"
    ELSE IF \/ ~InRange(times, MedianIndex(iterations))
            \/ ~InRange(times, 0)
            \/ ~InRange(times, 0 - 1)
            \/ ~InRange(times, P95Index(iterations))
         THEN "IndexError"
         ELSE ""

\* the results dict (mean is the quotient total / iterations, kept exact)
Statistics(name, times, iterations) ==
    LET sorted_times == Sorted(times)
        total_time == Sum(times)
    IN  [name       |-> name,
         iterations |-> iterations,
         total      |-> total_time,
         mean       |-> [num |-> total_time, den |-> iterations],
         median     |-> Item(sorted_times, MedianIndex(iterations)),
         min        |-> Item(sorted_times, 0),
         max        |-> Item(sorted_times, 0 - 1),
         p95        |-> Item(sorted_times, P95Index(iterations))]

-----------------------------------------------------------------------------
(* run_suite: the except block, and the initial states *)

\* the dict the except block appends for an exception of type `error` raised in `stack`
Failure(name, error, stack) == [name |-> name, error |-> error, stack |-> stack]

NoFrame == [name |-> 0, iterations |-> 0, warmup |-> 0, warmed |-> 0,
            times |-> <<>>, args |-> <<>>, save_file |-> <<>>]

\* of: the benchmark; setup, warmup, timed, cleanup: how often each was called;
\* raised: which of these calls raised, "" if none did; passed: the argument lists
\* the operation and the cleanup were called with
NoCalls == [of |-> 0, setup |-> 0, warmup |-> 0, timed |-> 0, cleanup |-> 0,
            raised |-> "", passed |-> {}]

NoFiles == [individual |-> EmptyDict, report |-> EmptyDict]

\* a faulty except block: nothing is recorded for the failed benchmark
ExceptSkips(error, stack) ==
    /\ suite_results' = suite_results
    /\ idx' = idx + 1
    /\ pc' = "loop"
    /\ frame' = NoFrame

\* a faulty except block: the failure is recorded and the loop is left
ExceptAborts(error, stack) ==
    /\ suite_results' = Append(suite_results, Failure(suite[idx].name, error, stack))
    /\ idx' = Len(suite) + 1
    /\ pc' = "loop"
    /\ frame' = NoFrame

\* except Exception as e: the failure is appended and the loop goes on
Except(error, stack) ==
    /\ suite_results' = Append(suite_results, Failure(suite[idx].name, error, stack))
    /\ idx' = idx + 1
    /\ pc' = "loop"
    /\ frame' = NoFrame

\* run_suite(suite, options) called by a program, or main() started from a command line
Init ==
    /\ suite \in Suites
    /\ declared = suite
    /\ \/ /\ pc = "run_suite"
          /\ args = EmptyDict
          /\ options \in OptionDicts
       \/ /\ pc = "main"
          /\ args \in CommandLines
          /\ options = EmptyDict
    /\ given = options
    /\ idx = 0
    /\ setup_result = None
    /\ frame = NoFrame
    /\ result = EmptyDict
    /\ suite_results = <<>>
    /\ files = NoFiles
    /\ calls = NoCalls
    /\ exit_code = {}

-----------------------------------------------------------------------------
(* main *)

\* a faulty override: only the definitions that declare a count get the new one
OverriddenDeclared(benchmarks, a) ==
    IF "iterations" \in DOMAIN a /\ a.iterations # 0
    THEN [k \in DOMAIN benchmarks |->
            [key \in DOMAIN benchmarks[k] |->
                IF key = "iterations" THEN a.iterations ELSE benchmarks[k][key]]]
    ELSE benchmarks

\* the suite as main leaves it: if args.iterations: benchmark["iterations"] = args.iterations
Overridden(benchmarks, a) ==
    IF "iterations" \in DOMAIN a /\ a.iterations # 0
    THEN [k \in DOMAIN benchmarks |->
            [key \in DOMAIN benchmarks[k] \cup {"iterations"} |->
                IF key = "iterations" THEN a.iterations ELSE benchmarks[k][key]]]
    ELSE benchmarks

\* the options main builds
MainOptions ==
    [verbose |-> FALSE, save_file |-> "suite_python.json", save_individual |-> TRUE]

\* except ImportError: return 1
MainNotFound ==
    /\ pc = "main"
    /\ ~args.found
    /\ pc' = "exit"
    /\ exit_code' = {1}
    /\ UNCHANGED <<args, suite, declared, options, given, idx, setup_result, frame,
                   result, suite_results, files, calls>>

\* the suite is imported, the options are built, the iterations overridden,
\* run_suite is called
MainRun ==
    /\ pc = "main"
    /\ args.found
    /\ options' = MainOptions
    /\ given' = MainOptions
    /\ suite' = Overridden(suite, args)
    /\ pc' = "run_suite"
    /\ UNCHANGED <<args, declared, idx, setup_result, frame, result, suite_results,
                   files, calls, exit_code>>

\* run_suite returned: return 0; an exception left run_suite: traceback, status 1
MainExit ==
    /\ pc \in {"returned", "raised"}
    /\ "found" \in DOMAIN args
    /\ exit_code' = IF pc = "returned" THEN {0} ELSE {1}
    /\ pc' = "exit"
    /\ UNCHANGED <<args, suite, declared, options, given, idx, setup_result, frame,
                   result, suite_results, files, calls>>

-----------------------------------------------------------------------------
(* run_suite and run_benchmark *)

\* suite_results = {..., "benchmarks": []}; the for loop starts
RunSuite ==
    /\ pc = "run_suite"
    /\ suite_results' = <<>>
    /\ idx' = 1
    /\ pc' = "loop"
    /\ UNCHANGED <<args, suite, declared, options, given, setup_result, frame, result,
                   files, calls, exit_code>>

\* the bench_options["save_file"] of a benchmark: options.get("save_individual") and "<file>"
IndividualFile(opts, name) ==
    IF Flag(opts, "save_individual") THEN <<"individual", name>> ELSE <<>>

\* run_benchmark(benchmark["fn"], args, iterations, bench_options) is entered
Enter(setup_value) ==
    LET benchmark == suite[idx]
        iterations == Get(benchmark, "iterations", DefaultIterations)
        warmup == WarmupCount(iterations, Get(options, "warmup", TRUE))
    IN  IF "fn" \notin DOMAIN benchmark
        THEN Except("KeyError", "run_suite")
        ELSE /\ frame' = [name       |-> benchmark.name,
                          iterations |-> iterations,
                          warmup     |-> warmup,
                          warmed     |-> 0,
                          times      |-> <<>>,
                          args       |-> IF setup_value # None THEN <<setup_value>> ELSE <<>>,
                          save_file  |-> IndividualFile(options, benchmark.name)]
             /\ pc' = IF warmup > 0 THEN "warmup" ELSE "timed"
             /\ UNCHANGED <<suite_results, idx>>

\* a faulty start of the try block: setup_result is not reset to None
NoSetupKeeps ==
    /\ pc = "loop"
    /\ idx <= Len(suite)
    /\ "setup" \notin DOMAIN suite[idx]
    /\ setup_result' = setup_result
    /\ calls' = [NoCalls EXCEPT !.of = idx]
    /\ Enter(setup_result)
    /\ UNCHANGED <<args, suite, declared, options, given, result, files, exit_code>>

\* the next benchmark of the loop has no "setup": setup_result stays None
NoSetup ==
    /\ pc = "loop"
    /\ idx <= Len(suite)
    /\ "setup" \notin DOMAIN suite[idx]
    /\ setup_result' = None
    /\ calls' = [NoCalls EXCEPT !.of = idx]
    /\ Enter(None)
    /\ UNCHANGED <<args, suite, declared, options, given, result, files, exit_code>>

\* a faulty setup step: a setup that raises is taken to have returned None
SetupSwallows ==
    /\ pc = "loop"
    /\ idx <= Len(suite)
    /\ "setup" \in DOMAIN suite[idx]
    /\ \/ \E value \in {Context(suite[idx].name), None} :
             /\ setup_result' = value
             /\ calls' = [NoCalls EXCEPT !.of = idx, !.setup = 1]
             /\ Enter(value)
       \/ /\ setup_result' = None
          /\ calls' = [NoCalls EXCEPT !.of = idx, !.setup = 1, !.raised = "setup"]
          /\ Enter(None)
    /\ UNCHANGED <<args, suite, declared, options, given, result, files, exit_code>>

\* the next benchmark of the loop has a "setup": it returns a context, or None, or raises
Setup ==
    /\ pc = "loop"
    /\ idx <= Len(suite)
    /\ "setup" \in DOMAIN suite[idx]
    /\ \/ \E value \in {Context(suite[idx].name), None} :
             /\ setup_result' = value
             /\ calls' = [NoCalls EXCEPT !.of = idx, !.setup = 1]
             /\ Enter(value)
       \/ /\ setup_result' = None
          /\ calls' = [NoCalls EXCEPT !.of = idx, !.setup = 1, !.raised = "setup"]
          /\ Except("SetupError", "setup")
    /\ UNCHANGED <<args, suite, declared, options, given, result, files, exit_code>>

\* a faulty warmup loop: an exception of a warmup call is swallowed
WarmupSwallows ==
    /\ pc = "warmup"
    /\ \/ /\ calls' = [calls EXCEPT !.warmup = @ + 1, !.passed = @ \cup {frame.args}]
       \/ /\ calls' = [calls EXCEPT !.warmup = @ + 1, !.raised = "warmup",
                                   !.passed = @ \cup {frame.args}]
    /\ frame' = [frame EXCEPT !.warmed = @ + 1]
    /\ pc' = IF frame.warmed + 1 < frame.warmup THEN "warmup" ELSE "timed"
    /\ UNCHANGED <<args, suite, declared, options, given, idx, setup_result, result,
                   suite_results, files, exit_code>>

\* for _ in range(min(10, iterations // 10)): fn(*args)
Warmup ==
    /\ pc = "warmup"
    /\ \/ /\ calls' = [calls EXCEPT !.warmup = @ + 1, !.passed = @ \cup {frame.args}]
          /\ frame' = [frame EXCEPT !.warmed = @ + 1]
          /\ pc' = IF frame.warmed + 1 < frame.warmup THEN "warmup" ELSE "timed"
          /\ UNCHANGED <<suite_results, idx>>
       \/ /\ calls' = [calls EXCEPT !.warmup = @ + 1, !.raised = "warmup",
                                   !.passed = @ \cup {frame.args}]
          /\ Except("OperationError", "warmup")
    /\ UNCHANGED <<args, suite, declared, options, given, setup_result, result, files,
                   exit_code>>

\* a faulty timed loop: the duration is put in front of the samples
TimedPrepends ==
    /\ pc = "timed"
    /\ Len(frame.times) < frame.iterations
    /\ \/ \E duration \in NextDurations(frame.times) :
             /\ calls' = [calls EXCEPT !.timed = @ + 1, !.passed = @ \cup {frame.args}]
             /\ frame' = [frame EXCEPT !.times = <<duration>> \o @]
             /\ UNCHANGED <<suite_results, idx, pc>>
       \/ /\ calls' = [calls EXCEPT !.timed = @ + 1, !.raised = "timed",
                                   !.passed = @ \cup {frame.args}]
          /\ Except("OperationError", "timed")
    /\ UNCHANGED <<args, suite, declared, options, given, setup_result, result, files,
                   exit_code>>

\* for i in range(iterations): one timed call of fn(*args); its duration is appended
Timed ==
    /\ pc = "timed"
    /\ Len(frame.times) < frame.iterations
    /\ \/ \E duration \in NextDurations(frame.times) :
             /\ calls' = [calls EXCEPT !.timed = @ + 1, !.passed = @ \cup {frame.args}]
             /\ frame' = [frame EXCEPT !.times = Append(@, duration)]
             /\ UNCHANGED <<suite_results, idx, pc>>
       \/ /\ calls' = [calls EXCEPT !.timed = @ + 1, !.raised = "timed",
                                   !.passed = @ \cup {frame.args}]
          /\ Except("OperationError", "timed")
    /\ UNCHANGED <<args, suite, declared, options, given, setup_result, result, files,
                   exit_code>>

\* the loop of timed calls is over: the results dict is built, or building it raises
Aggregate ==
    /\ pc = "timed"
    /\ Len(frame.times) >= frame.iterations
    /\ IF StatisticsError(frame.times, frame.iterations) # ""
       THEN /\ Except(StatisticsError(frame.times, frame.iterations), "run_benchmark")
            /\ UNCHANGED result
       ELSE /\ result' = Statistics(frame.name, frame.times, frame.iterations)
            /\ pc' = IF frame.save_file # <<>> THEN "save" ELSE "cleanup"
            /\ UNCHANGED <<suite_results, idx, frame>>
    /\ UNCHANGED <<args, suite, declared, options, given, setup_result, files,
                   calls, exit_code>>

\* if options.get("save_file"): open(result_path, "w") raises, or creates the file
\* empty and json.dump(results, None, 2) raises TypeError; run_benchmark never returns
SaveIndividual ==
    /\ pc = "save"
    /\ \/ /\ Except("OSError", "run_benchmark")
          /\ UNCHANGED files
       \/ /\ files' = [files EXCEPT !.individual = (frame.name :> <<>>) @@ @]
          /\ Except("TypeError", "run_benchmark")
    /\ UNCHANGED <<args, suite, declared, options, given, setup_result, result,
                   calls, exit_code>>

\* a faulty end of the try block: the loop goes on before the result is appended
CleanupUnrecorded ==
    /\ pc = "cleanup"
    /\ IF "cleanup" \in DOMAIN suite[idx] /\ setup_result # None
       THEN \/ /\ calls' = [calls EXCEPT !.cleanup = @ + 1,
                                        !.passed = @ \cup {<<setup_result>>}]
               /\ suite_results' = suite_results
               /\ idx' = idx + 1
               /\ pc' = "loop"
               /\ frame' = NoFrame
            \/ /\ calls' = [calls EXCEPT !.cleanup = @ + 1, !.raised = "cleanup",
                                        !.passed = @ \cup {<<setup_result>>}]
               /\ Except("CleanupError", "cleanup")
       ELSE /\ suite_results' = suite_results
            /\ idx' = idx + 1
            /\ pc' = "loop"
            /\ frame' = NoFrame
            /\ UNCHANGED calls
    /\ UNCHANGED <<args, suite, declared, options, given, setup_result, result,
                   files, exit_code>>

\* run_benchmark returned: the cleanup is called if there is one and setup_result is
\* not None, and the result is appended; a cleanup that raises goes to the except block
Cleanup ==
    /\ pc = "cleanup"
    /\ IF "cleanup" \in DOMAIN suite[idx] /\ setup_result # None
       THEN \/ /\ calls' = [calls EXCEPT !.cleanup = @ + 1,
                                        !.passed = @ \cup {<<setup_result>>}]
               /\ suite_results' = Append(suite_results, result)
               /\ idx' = idx + 1
               /\ pc' = "loop"
               /\ frame' = NoFrame
            \/ /\ calls' = [calls EXCEPT !.cleanup = @ + 1, !.raised = "cleanup",
                                        !.passed = @ \cup {<<setup_result>>}]
               /\ Except("CleanupError", "cleanup")
       ELSE /\ suite_results' = Append(suite_results, result)
            /\ idx' = idx + 1
            /\ pc' = "loop"
            /\ frame' = NoFrame
            /\ UNCHANGED calls
    /\ UNCHANGED <<args, suite, declared, options, given, setup_result, result,
                   files, exit_code>>

\* a faulty end of run_suite: the report is written before the last benchmark is run
ReturnEarly ==
    /\ pc = "loop"
    /\ idx >= Len(suite)
    /\ IF Named(options, "save_file")
       THEN \/ /\ files' = [files EXCEPT !.report = (options.save_file :> <<suite_results>>) @@ @]
               /\ pc' = "returned"
            \/ /\ files' = files
               /\ pc' = "raised"
            \/ /\ files' = [files EXCEPT !.report = (options.save_file :> <<>>) @@ @]
               /\ pc' = "raised"
       ELSE /\ pc' = "returned"
            /\ UNCHANGED files
    /\ calls' = NoCalls
    /\ UNCHANGED <<args, suite, declared, options, given, idx, setup_result, frame,
                   result, suite_results, exit_code>>

\* the loop is over: if options.get("save_file") the report is written (open or
\* json.dump may raise, and the exception leaves run_suite); return suite_results
Return ==
    /\ pc = "loop"
    /\ idx > Len(suite)
    /\ IF Named(options, "save_file")
       THEN \/ /\ files' = [files EXCEPT !.report = (options.save_file :> <<suite_results>>) @@ @]
               /\ pc' = "returned"
            \/ /\ files' = files
               /\ pc' = "raised"
            \/ /\ files' = [files EXCEPT !.report = (options.save_file :> <<>>) @@ @]
               /\ pc' = "raised"
       ELSE /\ pc' = "returned"
            /\ UNCHANGED files
    /\ calls' = NoCalls
    /\ UNCHANGED <<args, suite, declared, options, given, idx, setup_result, frame,
                   result, suite_results, exit_code>>

Next ==
    \/ MainNotFound
    \/ MainRun
    \/ MainExit
    \/ RunSuite
    \/ NoSetup
    \/ Setup
    \/ Warmup
    \/ Timed
    \/ Aggregate
    \/ SaveIndividual
    \/ Cleanup
    \/ Return

Spec == Init /\ [][Next]_vars

-----------------------------------------------------------------------------
(* The statistics on their own: run_benchmark at the end of its timed loop, with *)
(* any samples in times, called for the only benchmark of a suite               *)

SampleSequences(n) == [1 .. n -> 0 .. MaxSample]

InitStatistics ==
    /\ \E n \in (0 - 1) .. MaxSamples :
          /\ suite = <<[name |-> 1, fn |-> "fn", iterations |-> n]>>
          /\ \E times \in SampleSequences(n) :
                frame = [NoFrame EXCEPT !.name = 1, !.iterations = n, !.times = times]
          /\ calls = [NoCalls EXCEPT !.of = 1, !.timed = IF n > 0 THEN n ELSE 0]
    /\ declared = suite
    /\ pc = "timed"
    /\ args = EmptyDict
    /\ options = EmptyDict
    /\ given = options
    /\ idx = 1
    /\ setup_result = None
    /\ result = EmptyDict
    /\ suite_results = <<>>
    /\ files = NoFiles
    /\ exit_code = {}

NextStatistics == Aggregate

SpecStatistics == InitStatistics /\ [][NextStatistics]_vars

\* the first `slow` of n timed calls took one time unit, the others none
SlowFirst(n, slow) == [i \in 1 .. n |-> IF i <= slow THEN 1 ELSE 0]

\* run_benchmark at the end of its timed loop, for every count 1..MaxCount
InitPercentile ==
    /\ \E n \in 1 .. MaxCount :
          /\ suite = <<[name |-> 1, fn |-> "fn", iterations |-> n]>>
          /\ \E slow \in 0 .. n :
                frame = [NoFrame EXCEPT !.name = 1, !.iterations = n,
                                        !.times = SlowFirst(n, slow)]
          /\ calls = [NoCalls EXCEPT !.of = 1, !.timed = n, !.passed = {<<>>}]
    /\ declared = suite
    /\ pc = "timed"
    /\ args = EmptyDict
    /\ options = [warmup |-> FALSE]
    /\ given = options
    /\ idx = 1
    /\ setup_result = None
    /\ result = EmptyDict
    /\ suite_results = <<>>
    /\ files = NoFiles
    /\ exit_code = {}

SpecPercentile == InitPercentile /\ [][NextStatistics]_vars

-----------------------------------------------------------------------------
(* run_suite on its own, called for a suite of one benchmark whose count is around *)
(* the multiples of 10 that decide the number of warmup calls                      *)

WarmupCounts ==
    {0, WarmupDivisor - 1, WarmupDivisor, 2 * WarmupDivisor - 1, 2 * WarmupDivisor,
     WarmupCap * WarmupDivisor - 1, WarmupCap * WarmupDivisor, MaxCount}

InitWarmup ==
    /\ \E n \in WarmupCounts :
       \E s \in Optional("setup", {"setup"}), c \in Optional("cleanup", {"cleanup"}) :
          suite = <<[name |-> 1, fn |-> "fn", iterations |-> n] @@ s @@ c>>
    /\ declared = suite
    /\ pc = "run_suite"
    /\ args = EmptyDict
    /\ options \in OptionDicts
    /\ given = options
    /\ idx = 0
    /\ setup_result = None
    /\ frame = NoFrame
    /\ result = EmptyDict
    /\ suite_results = <<>>
    /\ files = NoFiles
    /\ calls = NoCalls
    /\ exit_code = {}

NextSuite ==
    \/ RunSuite
    \/ NoSetup
    \/ Setup
    \/ Warmup
    \/ Timed
    \/ Aggregate
    \/ SaveIndividual
    \/ Cleanup
    \/ Return

SpecWarmup == InitWarmup /\ [][NextSuite]_vars

-----------------------------------------------------------------------------
(* What the claims speak of *)

StatisticsKeys == {"total", "mean", "median", "min", "max", "p95"}

\* a result with an error field and no statistics field / with every statistics field
ErrorShaped(r) == "error" \in DOMAIN r /\ DOMAIN r \cap StatisticsKeys = {}
SuccessShaped(r) == StatisticsKeys \subseteq DOMAIN r /\ "error" \notin DOMAIN r

\* the loop has just left benchmark calls.of: its result is the last of suite_results
Left == pc = "loop" /\ calls.of >= 1 /\ idx = calls.of + 1

\* run_benchmark has built its results dict from frame.times
Built == pc \in {"save", "cleanup"}

\* the next benchmark of the loop can start
CanStart == ENABLED (Setup \/ NoSetup)

-----------------------------------------------------------------------------
(* C1: when run_suite returns, suite_results["benchmarks"] has one entry per      *)
(* definition of the suite, the i-th carrying the name of the i-th definition,    *)
(* whichever of the setups, operations and cleanups raised.                       *)
C1_OneResultPerDefinition ==
    pc = "returned" =>
        /\ Len(suite_results) = Len(suite)
        /\ \A i \in 1 .. Len(suite) : suite_results[i].name = suite[i].name

\* a run of two benchmarks has returned, the first failed and the second succeeded
C1_Witness ==
    /\ pc = "returned"
    /\ Len(suite) = 2
    /\ ErrorShaped(suite_results[1])
    /\ SuccessShaped(suite_results[2])

(* C2: a benchmark whose operation raises on its (first, hence every) call gets a *)
(* result with an error field and no statistics field; the loop goes on to the    *)
(* next definition, every definition has its result when run_suite is left, and   *)
(* the only exception that leaves run_suite is the report's, after the loop.      *)
C2_OperationFailureContained ==
    /\ (calls.raised \in {"warmup", "timed"} /\ calls.warmup + calls.timed = 1) =>
            /\ Left
            /\ Len(suite_results) = calls.of
            /\ ErrorShaped(suite_results[calls.of])
            /\ suite_results[calls.of].name = suite[calls.of].name
            /\ idx <= Len(suite) => CanStart
    /\ pc \in {"returned", "raised"} =>
            /\ idx = Len(suite) + 1
            /\ Len(suite_results) = Len(suite)
    /\ pc = "raised" => Named(options, "save_file")

\* the first operation call of benchmark 1 raised, and benchmark 2 is making timed calls
C2_Witness ==
    /\ Len(suite) = 2
    /\ Len(suite_results) >= 1
    /\ ErrorShaped(suite_results[1])
    /\ suite_results[1].stack = "timed"
    /\ calls.of = 2
    /\ calls.timed >= 1

(* C3: for a benchmark with a setup and a cleanup, once the loop has left it the   *)
(* cleanup was called exactly once if the setup returned (whatever it returned,   *)
(* whether or not the operation then raised), and not at all if the setup raised. *)
(* Stated for benchmarks with a count >= 1 and no individual file to write.       *)
C3_CleanupOncePerSetup ==
    (/\ Left
     /\ {"setup", "cleanup"} \subseteq DOMAIN suite[calls.of]
     /\ Get(suite[calls.of], "iterations", DefaultIterations) >= 1
     /\ ~Flag(options, "save_individual")) =>
        calls.cleanup = (IF calls.raised = "setup" THEN 0 ELSE 1)

(* C4: if the operation completed its timed iterations and the cleanup then       *)
(* raised, the result recorded for the benchmark is the success-shaped result.    *)
C4_CleanupErrorKeepsResult ==
    (Left /\ calls.raised = "cleanup") =>
        /\ SuccessShaped(suite_results[calls.of])
        /\ suite_results[calls.of] = result

(* C5: if the setup of a benchmark raises, its operation and its cleanup are not  *)
(* called, an error-shaped result is recorded for it, and the loop is at the next *)
(* definition, which can start, with nothing left of the failed one.              *)
C5_SetupFailureSkipsBenchmark ==
    calls.raised = "setup" =>
        /\ Left
        /\ calls.warmup = 0 /\ calls.timed = 0 /\ calls.cleanup = 0
        /\ Len(suite_results) = calls.of
        /\ ErrorShaped(suite_results[calls.of])
        /\ suite_results[calls.of].name = suite[calls.of].name
        /\ frame = NoFrame /\ setup_result = None
        /\ idx <= Len(suite) => CanStart

\* the setup of the first of two benchmarks, which has a cleanup, raised
C5_Witness ==
    /\ calls.raised = "setup"
    /\ calls.of = 1
    /\ Len(suite) = 2
    /\ "cleanup" \in DOMAIN suite[1]

(* C6: with save_individual set, a benchmark none of whose calls raised and whose *)
(* individual file could be opened is recorded as a success, and its file holds   *)
(* its result.                                                                    *)
C6_IndividualSaveKeepsSuccess ==
    (/\ Left
     /\ Flag(options, "save_individual")
     /\ calls.raised = ""
     /\ calls.timed >= 1
     /\ suite[calls.of].name \in DOMAIN files.individual) =>
        /\ SuccessShaped(suite_results[calls.of])
        /\ files.individual[suite[calls.of].name] = <<suite_results[calls.of]>>

(* C7: a failed write does not lose the result: no exception leaves run_suite,    *)
(* and no benchmark is recorded as failed because its file could not be opened.   *)
C7_PersistFailureStillReturns ==
    /\ pc # "raised"
    /\ \A i \in 1 .. Len(suite_results) :
           ErrorShaped(suite_results[i]) => suite_results[i].error # "OSError"

(* C8: when a definition of the suite run_suite is given holds a count <= 0, or   *)
(* --iterations is <= 0, no setup and no operation is called and no result is     *)
(* recorded.                                                                      *)
C8_NonPositiveCountRejected ==
    (\/ /\ pc # "main"
        /\ \E i \in 1 .. Len(suite) : Get(suite[i], "iterations", DefaultIterations) <= 0
     \/ "iterations" \in DOMAIN args /\ args.iterations <= 0) =>
        /\ calls.setup = 0 /\ calls.warmup = 0 /\ calls.timed = 0
        /\ suite_results = <<>>

-----------------------------------------------------------------------------
(* The statistics *)

\* m is the element at 0-based index k of the samples in ascending order
IsOrderStatistic(samples, k, m) ==
    /\ \E i \in 1 .. Len(samples) : samples[i] = m
    /\ Cardinality({i \in 1 .. Len(samples) : samples[i] < m}) <= k
    /\ Cardinality({i \in 1 .. Len(samples) : samples[i] <= m}) >= k + 1

\* the samples are a, b, c, d in some order
IsPermutationOf(samples, values) ==
    /\ Len(samples) = Len(values)
    /\ \E f \in [1 .. Len(values) -> 1 .. Len(values)] :
          /\ \A i, j \in 1 .. Len(values) : i # j => f[i] # f[j]
          /\ \A i \in 1 .. Len(values) : samples[i] = values[f[i]]

\* the sum of the samples, value by value
Total(samples) ==
    LET count(v) == Cardinality({i \in 1 .. Len(samples) : samples[i] = v})
        RECURSIVE upto(_)
        upto(v) == IF v < 0 THEN 0 ELSE v * count(v) + upto(v - 1)
    IN  upto(MaxSample + MaxDuration)

(* C9: the median of n >= 1 samples is the element at 0-based index n // 2 of the *)
(* samples in ascending order, the upper of the two middle ones when n is even:   *)
(* samples 1, 2, 3, 4 in any order give 3.                                        *)
C9_UpperMedian ==
    Built =>
        /\ IsOrderStatistic(frame.times, Len(frame.times) \div 2, result.median)
        /\ IsPermutationOf(frame.times, <<1, 2, 3, 4>>) => result.median = 3

\* the statistics of the samples 4, 1, 3, 2 were built
C9_Witness ==
    /\ Built
    /\ frame.times = <<4, 1, 3, 2>>
    /\ result.median = 3

(* C10: the statistics of iterations >= 1 samples satisfy min <= median <= max,   *)
(* min <= mean <= max and min <= p95 <= max, with mean = total / iterations and   *)
(* total the sum of the samples.                                                  *)
C10_StatisticsOrdered ==
    (Built /\ result.iterations >= 1) =>
        /\ result.min <= result.median /\ result.median <= result.max
        /\ result.min <= result.p95 /\ result.p95 <= result.max
        /\ result.mean = [num |-> result.total, den |-> result.iterations]
        /\ result.min * result.mean.den <= result.mean.num
        /\ result.mean.num <= result.max * result.mean.den
        /\ result.total = Total(frame.times)
        /\ result.iterations = Len(frame.times)

\* statistics with min < median < max and min < mean < max were built
C10_Witness ==
    /\ Built
    /\ result.iterations >= 3
    /\ result.min < result.median /\ result.median < result.max
    /\ result.min * result.mean.den < result.mean.num
    /\ result.mean.num < result.max * result.mean.den
    /\ result.p95 = result.max

-----------------------------------------------------------------------------
(* The command line *)

\* --iterations n with n >= 1 was given
OverrideGiven == "iterations" \in DOMAIN args /\ args.iterations >= 1

\* the program is inside run_benchmark
InBenchmark == pc \in {"warmup", "timed", "save", "cleanup"}

(* C11: when --iterations n with n >= 1 is given, every benchmark of the suite is  *)
(* run with the count n, whatever its definition declares (also when it declares  *)
(* none): run_benchmark is entered with iterations = n, and a benchmark none of    *)
(* whose calls raised made exactly n timed calls and recorded n samples.           *)
C11_OverrideApplies ==
    OverrideGiven =>
        /\ InBenchmark => frame.iterations = args.iterations
        /\ Built =>
              /\ calls.timed = args.iterations
              /\ Len(frame.times) = args.iterations
              /\ result.iterations = args.iterations
        /\ (Left /\ calls.raised = "") => calls.timed = args.iterations

\* with --iterations given, the second of two benchmarks, which declares no count
\* (the first declares 0), has made its timed calls, as many as the override says
C11_Witness ==
    /\ OverrideGiven
    /\ Len(declared) = 2
    /\ "iterations" \in DOMAIN declared[1] /\ declared[1].iterations = 0
    /\ "iterations" \notin DOMAIN declared[2]
    /\ Left /\ calls.of = 2 /\ calls.raised = ""
    /\ calls.timed = args.iterations
    /\ args.iterations # DefaultIterations

(* C12: main returns 0 whenever the suite module was found and the suite run,     *)
(* however many benchmarks failed, and a non-zero code only when it was not found. *)
C12_ExitCodeZeroWhenRun ==
    pc = "exit" => (exit_code = {0} <=> args.found)

-----------------------------------------------------------------------------
(* The calls of one benchmark *)

\* the count the benchmark the loop is at (or has just left) is run with
CountOf(k) == Get(suite[k], "iterations", 100)

\* min(10, n // 10) for n >= 0, from the definition of the floor
ExpectedWarmup(n) ==
    IF n < 10 THEN 0
    ELSE IF n >= 100 THEN 10
    ELSE CHOOSE k \in 1 .. 9 : 10 * k <= n /\ n < 10 * (k + 1)

\* options["warmup"] is absent (the default is True) or true
WarmupEnabled == "warmup" \notin DOMAIN options \/ options.warmup

(* C13: with warmup enabled a benchmark with count n calls its operation exactly   *)
(* min(10, n // 10) times before its first timed call (none when n < 10), with the *)
(* argument list of the timed calls, and no warmup call adds a sample; with warmup *)
(* disabled there is no untimed call.                                              *)
C13_WarmupBeforeTimed ==
    LET expected == IF WarmupEnabled THEN ExpectedWarmup(CountOf(calls.of)) ELSE 0
    IN  /\ pc = "warmup" =>
              /\ calls.timed = 0
              /\ frame.times = <<>>
              /\ calls.warmup < expected
        /\ (InBenchmark /\ pc # "warmup") => calls.warmup = expected
        /\ InBenchmark => Len(frame.times) = calls.timed
        /\ (calls.of >= 1 /\ calls.raised \notin {"setup", "warmup"}
              /\ (calls.timed >= 1 \/ Left)) => calls.warmup = expected
        /\ Cardinality(calls.passed) <= 1

\* a benchmark with the largest count, more than 100, has made its 10 warmup calls
\* and then timed calls, all with the context its setup returned
C13_Witness ==
    /\ pc = "timed"
    /\ CountOf(calls.of) = MaxCount
    /\ calls.warmup = 10
    /\ calls.timed >= 2
    /\ calls.passed = {<<Context(1)>>}

\* the counts of a benchmark that succeeded with count n
SuccessCounts(r, n) ==
    /\ r.iterations = n
    /\ calls.timed = n
    /\ calls.warmup + calls.timed
          = n + (IF WarmupEnabled THEN ExpectedWarmup(n) ELSE 0)

(* C14: a benchmark that succeeds with count n recorded exactly n samples, one per *)
(* timed call and in the order of the calls (every timed call that returns puts    *)
(* its sample after the ones recorded before, and nothing else changes them), its  *)
(* result has iterations = n, and its operation was called n plus the number of    *)
(* warmup calls times.                                                             *)
C14_SamplesPerTimedCall ==
    /\ [](/\ InBenchmark => Len(frame.times) = calls.timed
          /\ Built =>
                /\ Len(frame.times) = CountOf(calls.of)
                /\ SuccessCounts(result, CountOf(calls.of))
          /\ (Left /\ SuccessShaped(suite_results[calls.of])) =>
                SuccessCounts(suite_results[calls.of], CountOf(calls.of)))
    /\ [][/\ (InBenchmark /\ calls'.timed = calls.timed + 1 /\ calls'.raised = "") =>
                /\ Len(frame'.times) = Len(frame.times) + 1
                /\ SubSeq(frame'.times, 1, Len(frame.times)) = frame.times
          /\ (InBenchmark /\ InBenchmark' /\ calls'.timed = calls.timed) =>
                frame'.times = frame.times]_vars

\* a benchmark with count 100 succeeded after 10 warmup and 100 timed calls, the
\* first of which took longer than the others
C14_Witness ==
    /\ Left
    /\ SuccessShaped(suite_results[calls.of])
    /\ suite_results[calls.of].iterations = 100
    /\ calls.warmup = 10 /\ calls.timed = 100
    /\ suite_results[calls.of].max > suite_results[calls.of].median

(* C15: once a warmup call or a timed call of a benchmark has raised, the          *)
(* operation is not called again for that benchmark, run_benchmark is left with    *)
(* no statistics (no result, no individual file), and the entry recorded for the   *)
(* benchmark is error-shaped and carries the exception's message and trace.        *)
C15_OperationFailureAborts ==
    /\ [](calls.raised \in {"warmup", "timed"} =>
              /\ Left
              /\ frame = NoFrame
              /\ Len(suite_results) = calls.of
              /\ ErrorShaped(suite_results[calls.of])
              /\ DOMAIN suite_results[calls.of] = {"name", "error", "stack"}
              /\ suite_results[calls.of].error = "OperationError"
              /\ suite_results[calls.of].stack = calls.raised
              /\ suite[calls.of].name \notin DOMAIN files.individual)
    /\ [][calls.raised \in {"warmup", "timed"} =>
              \/ calls'.of # calls.of
              \/ calls'.warmup = calls.warmup /\ calls'.timed = calls.timed]_vars

\* the operation raised on a timed call that is not the first, after 10 warmup
\* calls, in a run that writes individual files
C15_Witness ==
    /\ calls.raised = "timed"
    /\ calls.warmup = 10
    /\ calls.timed >= 5
    /\ Flag(options, "save_individual")

-----------------------------------------------------------------------------
(* The 95th percentile *)

\* floor(0.95 n), from the definition of the floor
Floor95(n) == CHOOSE k \in 0 .. n : 100 * k <= 95 * n /\ 95 * n < 100 * (k + 1)

(* C16: for every count n >= 1, p95 is the element at 0-based index floor(0.95 n)  *)
(* of the samples in ascending order (the product truncated, not rounded: index    *)
(* 95 for n = 100); the index is within 0 .. n-1, so building the statistics of n  *)
(* samples never raises.                                                           *)
C16_P95Truncated ==
    /\ (pc = "loop" /\ CountOf(1) >= 1) => suite_results = <<>>
    /\ Built =>
          LET n == Len(frame.times)
          IN  /\ n = CountOf(1)
              /\ Floor95(n) \in 0 .. n - 1
              /\ n = 100 => Floor95(n) = 95
              /\ IsOrderStatistic(frame.times, Floor95(n), result.p95)

\* the statistics of 100 samples, exactly 5 of them slow, were built: the sample
\* at index 95 of the sorted samples is the first slow one
C16_Witness ==
    /\ Built
    /\ Len(frame.times) = 100
    /\ Cardinality({i \in 1 .. 100 : frame.times[i] = 1}) = 5
    /\ result.p95 = 1
    /\ result.median = 0

-----------------------------------------------------------------------------
(* The order of the benchmarks *)

\* the results recorded so far are those of the first k definitions, in order
RecordedUpTo(k) ==
    /\ Len(suite_results) = k
    /\ \A j \in 1 .. k : suite_results[j].name = suite[j].name

(* C17: the benchmarks run one after another in the order of the suite: while the  *)
(* calls of benchmark k are made the results of exactly the k - 1 definitions      *)
(* before it are recorded; the first call of a benchmark (its setup, or its        *)
(* operation if it has none) is made when no call of another is in progress, the   *)
(* benchmark is the one after the last that ran, and the result of every earlier   *)
(* one is recorded; every call made is a call of the benchmark the loop is at.     *)
C17_OneAfterAnother ==
    /\ [](/\ InBenchmark => (calls.of = idx /\ RecordedUpTo(idx - 1))
          /\ pc = "loop" => RecordedUpTo(idx - 1)
          /\ Left => RecordedUpTo(calls.of))
    /\ [][/\ (calls'.of # calls.of /\ calls'.of >= 1) =>
                /\ pc = "loop"
                /\ calls'.of = idx
                /\ calls'.of = (IF calls.of = 0 THEN 1 ELSE calls.of + 1)
                /\ RecordedUpTo(calls'.of - 1)
          /\ (calls' # calls /\ calls'.of = calls.of) =>
                /\ idx = calls.of
                /\ RecordedUpTo(calls.of - 1)]_vars

\* the second of two benchmarks is making timed calls after its setup, the first
\* has made all its calls, the cleanup included, and has its result recorded
C17_Witness ==
    /\ Len(suite) = 2
    /\ {"setup", "cleanup"} \subseteq DOMAIN suite[1]
    /\ pc = "timed"
    /\ calls.of = 2 /\ calls.setup = 1 /\ calls.timed >= 1
    /\ Len(suite_results) = 1
    /\ SuccessShaped(suite_results[1])

-----------------------------------------------------------------------------
(* The context *)

(* C18: every call of a benchmark's operation (warmup or timed) and of its cleanup *)
(* gets as its only argument the context the setup of that benchmark returned in   *)
(* this run (and no argument when there is no context: no setup, or a setup that   *)
(* returned None); the context of one benchmark's setup is never passed to the     *)
(* operation or the cleanup of another, also when the later one has no setup or    *)
(* its setup raises.                                                               *)
C18_OwnContextOnly ==
    calls.of >= 1 =>
        /\ setup_result \in {None, Context(suite[calls.of].name)}
        /\ calls.passed \subseteq {<<>>, <<Context(suite[calls.of].name)>>}
        /\ calls.passed \subseteq
              {IF setup_result # None THEN <<setup_result>> ELSE <<>>}
        /\ ("setup" \notin DOMAIN suite[calls.of] \/ calls.raised = "setup") =>
              setup_result = None
        /\ calls.raised = "setup" => calls.passed = {}
        /\ calls.warmup + calls.timed >= 1 => calls.passed # {}
        /\ calls.cleanup >= 1 => (setup_result # None /\ <<setup_result>> \in calls.passed)

\* the second of two benchmarks with setups has called its operation and its
\* cleanup, each with the context its own setup returned
C18_Witness ==
    /\ Len(suite) = 2
    /\ "setup" \in DOMAIN suite[1]
    /\ Left /\ calls.of = 2
    /\ calls.timed >= 1 /\ calls.cleanup = 1
    /\ calls.passed = {<<Context(suite[2].name)>>}

-----------------------------------------------------------------------------
(* The suite report *)

\* run_suite has returned its suite_results
Returned == pc = "returned" \/ (pc = "exit" /\ exit_code = {0})

(* C19: the suite report is written at most once in a run, only when              *)
(* options["save_file"] is set, and only after every definition of the suite has   *)
(* its entry (result or failure) in suite_results; when run_suite returns, the     *)
(* report holds exactly the suite_results it returns, in the same order.           *)
C19_ReportOnceAfterLoop ==
    /\ [](/\ ~Named(options, "save_file") => files.report = EmptyDict
          /\ files.report # EmptyDict =>
                /\ DOMAIN files.report = {options.save_file}
                /\ pc \in {"returned", "raised", "exit"}
                /\ idx = Len(suite) + 1
                /\ RecordedUpTo(Len(suite))
          /\ (Returned /\ Named(options, "save_file")) =>
                /\ options.save_file \in DOMAIN files.report
                /\ files.report[options.save_file] = <<suite_results>>)
    /\ [][/\ files'.report # files.report =>
                /\ files.report = EmptyDict
                /\ pc = "loop" /\ idx = Len(suite) + 1
                /\ RecordedUpTo(Len(suite))
          /\ files.report # EmptyDict => suite_results' = suite_results]_vars

\* run_suite has returned after writing the report of two benchmarks, the first
\* of which succeeded and the second failed
C19_Witness ==
    /\ pc = "returned"
    /\ Len(suite) = 2
    /\ files.report = ("report.json" :> <<suite_results>>)
    /\ SuccessShaped(suite_results[1])
    /\ ErrorShaped(suite_results[2])

(* C20: a run does not modify what it was given: when run_suite has returned, and  *)
(* when a command-line run (with or without --iterations) is over, every           *)
(* benchmark definition of the suite, its iterations included, and the options     *)
(* are what they were before the run.                                              *)
C20_InputsUnchanged ==
    pc \in {"returned", "exit"} =>
        /\ suite = declared
        /\ options = given

-----------------------------------------------------------------------------
(* Termination *)

\* run_suite(suite, options) called by a program
InitSuite == Init /\ pc = "run_suite"

\* every call of a setup, an operation or a cleanup returns or raises, and the
\* interpreter goes on to the next statement: run_suite takes a step whenever it can
FairSuite == InitSuite /\ [][NextSuite]_vars /\ WF_vars(NextSuite)

(* C21: provided every call returns or raises, a run of run_suite ends with        *)
(* run_suite returning, after each benchmark was visited once: the setup of a      *)
(* benchmark is called at most once, the loop never goes back to a benchmark, and  *)
(* nothing is called once the run is over.                                         *)
C21_RunCompletes ==
    /\ <>(pc = "returned")
    /\ [](calls.setup <= 1)
    /\ [][/\ idx' >= idx
          /\ calls'.of # calls.of => calls'.of \in {0, idx}
          /\ pc \in {"returned", "raised"} => calls' = calls]_vars

-----------------------------------------------------------------------------
(* The shipped suites: SUITE["benchmarks"] of entity_suite.py and relation_suite.py, *)
(* run by run_suite with callables that do not raise                                *)

\* a definition that gives its operation under "fn" / under "function"
WithFn(name, iterations) == [name |-> name, iterations |-> iterations, fn |-> "fn"]
WithFunction(name, iterations) ==
    [name |-> name, iterations |-> iterations, function |-> "function"]

SetupKey == "setup" :> "setup"
CleanupKey == "cleanup" :> "cleanup"

\* entity_suite.SUITE["benchmarks"]
EntitySuite ==
    << WithFn(1, 50),
       WithFn(2, 100) @@ SetupKey,
       WithFn(3, 50) @@ SetupKey,
       WithFn(4, 20) @@ SetupKey @@ CleanupKey,
       WithFn(5, 50) @@ SetupKey,
       WithFn(6, 20) @@ SetupKey,
       WithFn(7, 5),
       WithFn(8, 50) @@ SetupKey >>

\* relation_suite.SUITE["benchmarks"]
RelationSuite ==
    << WithFunction(1, 100),
       WithFunction(2, 100) @@ SetupKey @@ CleanupKey,
       WithFunction(3, 100) @@ SetupKey @@ CleanupKey,
       WithFunction(4, 100) @@ SetupKey @@ CleanupKey,
       WithFunction(5, 100) @@ SetupKey @@ CleanupKey,
       WithFunction(6, 20),
       WithFunction(7, 50) @@ SetupKey @@ CleanupKey >>

InitShipped ==
    /\ suite \in {EntitySuite, RelationSuite}
    /\ declared = suite
    /\ pc = "run_suite"
    /\ args = EmptyDict
    /\ options \in OptionDicts
    /\ given = options
    /\ idx = 0
    /\ setup_result = None
    /\ frame = NoFrame
    /\ result = EmptyDict
    /\ suite_results = <<>>
    /\ files = NoFiles
    /\ calls = NoCalls
    /\ exit_code = {}

\* a step of run_suite in which no setup, operation or cleanup raises
NextShipped ==
    \/ RunSuite
    \/ NoSetup
    \/ Setup /\ calls'.raised = ""
    \/ Warmup /\ calls'.raised = ""
    \/ Timed /\ calls'.raised = ""
    \/ Aggregate
    \/ SaveIndividual
    \/ Cleanup /\ calls'.raised = ""
    \/ Return

SpecShipped == InitShipped /\ [][NextShipped]_vars

(* C22: every definition of the shipped Entity Operations and Relation Operations  *)
(* suites gives its operation under the key run_suite reads: when either suite is  *)
(* run with callables that do not raise (and no individual files to write), every  *)
(* benchmark the loop has left had its operation called and has a success-shaped   *)
(* result.                                                                         *)
C22_ShippedSuitesRun ==
    (Left /\ ~Flag(options, "save_individual")) =>
        /\ calls.timed = suite[calls.of].iterations
        /\ SuccessShaped(suite_results[calls.of])

====
